---- MODULE Spec2Model ----
(***************************************************************************)
(* Model of package bucketfile (src/bucketfile.go): Upload, Get and List,  *)
(* three wrappers around a cloud storage client.  Each call is a process   *)
(* that moves through the positions of its function body; the storage      *)
(* service is the environment: NewClient, Writer.Write/Close, NewReader,   *)
(* Reader.Read and the object iterator succeed or fail as the service      *)
(* decides, and the calls bound by the context stop at its deadline.       *)
(***************************************************************************)
EXTENDS Integers, Sequences, FiniteSets, TLC

\* ------------------------------------------------------------- bounds
NumProcs == 2          \* concurrent callers
PageSize == 2          \* names per page of the listing protocol
MaxCalls == 2          \* calls started in one concurrent behaviour
MaxTimedCalls == 2     \* calls started in one timed behaviour
MaxSeqCalls == 4       \* calls started in one behaviour of a single caller

\* ------------------------------------------------- program constants
UploadTimeout == 50    \* bucketfile.go:28  time.Second*50
GetTimeout == 50       \* bucketfile.go:54  time.Second*50
ListTimeout == 10      \* bucketfile.go:83  time.Second*10

\* --------------------------------------------------------- input sets
Procs == 1..NumProcs
Buckets == {"b1", "b2"}
ObjOrder == <<"a", "b", "c">>      \* the order in which the service lists names
Objects == {ObjOrder[i] : i \in 1..Len(ObjOrder)}
Keys == Buckets \X Objects
\* what the service holds before the first call: bucket b1 holds object a,
\* bucket b2 is empty
InitStore ==
    [k \in Keys |-> IF k = <<"b1", "a">>
                     THEN [exists |-> TRUE, content |-> <<2, 1>>]
                     ELSE [exists |-> FALSE, content |-> <<>>]]
Durations == {0, 4, 30, 60}        \* time a remote step may take

Payloads == {<<>>, <<1, 2>>, <<2, 1>>}     \* contents of the io.Reader file

\* ------------------------------------------------------------ values
Absent == [exists |-> FALSE, content |-> <<>>]
Obj(c) == [exists |-> TRUE, content |-> c]
NoChan == [open |-> FALSE, buf |-> <<>>]
Chan(b) == [open |-> TRUE, buf |-> b]
NoIt == [tok |-> 0, buf |-> <<>>, more |-> FALSE]
NoDeadline == -1
Ev(s, ok) == [step |-> s, ok |-> ok]

\* errors: the static tag of fmt.Errorf and the %q argument it carries
Err(t, n) == [tag |-> t, name |-> n]
NoErr == Err("nil", "")

VARIABLES
    store,      \* the service: committed content of every (bucket, object)
    now,        \* wall clock
    pc,         \* position of each caller in its function
    op,         \* the function a caller is in: "Upload", "Get", "List"
    bucket,     \* argument bucket
    object,     \* argument object
    file,       \* argument file of Upload: the bytes the io.Reader yields
    entry,      \* clock value at call entry
    deadline,   \* deadline of ctx once context.WithTimeout has run
    wc,         \* storage.Writer of Upload: bytes written, not yet committed
    rc,         \* storage.Reader of Get: bytes of the opened generation left
    data,       \* buffer of ioutil.ReadAll
    it,         \* storage.ObjectIterator of List
    fileNames,  \* local fileNames of List
    retData,    \* returned []byte of Get
    retNames,   \* returned []string of List
    err,        \* returned error
    trace,      \* steps the current call has attempted, then its deferred calls
    calls,      \* number of calls started
    lastOk,     \* history: payload of the latest Upload that returned nil, per key
    finalized,  \* history: payload of the Upload whose Writer.Close last succeeded
                \* (or the content held before the first call), per key
    opened,     \* history: what finalized held for the object when NewReader
                \* opened it
    pre,        \* history: content of the object at entry of Upload
    yielded     \* history: names the listing protocol handed to this List

vars == <<store, now, pc, op, bucket, object, file, entry, deadline, wc, rc,
          data, it, fileNames, retData, retNames, err, trace, calls, lastOk,
          finalized, opened, pre, yielded>>

callVars == <<op, bucket, object, file, entry, pre>>
histVars == <<lastOk, finalized>>

Key(p) == <<bucket[p], object[p]>>

Init ==
    /\ store = InitStore
    /\ now = 0
    /\ pc = [p \in Procs |-> "idle"]
    /\ op = [p \in Procs |-> "none"]
    /\ bucket = [p \in Procs |-> "b1"]
    /\ object = [p \in Procs |-> "a"]
    /\ file = [p \in Procs |-> <<>>]
    /\ entry = [p \in Procs |-> 0]
    /\ deadline = [p \in Procs |-> NoDeadline]
    /\ wc = [p \in Procs |-> NoChan]
    /\ rc = [p \in Procs |-> NoChan]
    /\ data = [p \in Procs |-> <<>>]
    /\ it = [p \in Procs |-> NoIt]
    /\ fileNames = [p \in Procs |-> <<>>]
    /\ retData = [p \in Procs |-> <<>>]
    /\ retNames = [p \in Procs |-> <<>>]
    /\ err = [p \in Procs |-> NoErr]
    /\ trace = [p \in Procs |-> <<>>]
    /\ calls = 0
    /\ lastOk = [k \in Keys |-> Absent]
    /\ finalized = store
    /\ opened = [p \in Procs |-> Absent]
    /\ pre = [p \in Procs |-> Absent]
    /\ yielded = [p \in Procs |-> <<>>]

\* ------------------------------------------------------ code: decisions

\* the timeout handed to context.WithTimeout
Timeout(o) ==
    CASE o = "Upload" -> UploadTimeout
      [] o = "Get" -> GetTimeout
      [] o = "List" -> ListTimeout
      [] OTHER -> 0

\* the static text fmt.Errorf puts in front of the error of step s
Tag(o, s) ==
    CASE s = "storage.NewClient" -> "storage.NewClient"
      [] s = "io.Copy" -> "io.Copy"
      [] s = "Writer.Close" -> "Writer.Close"
      [] s = "NewReader" -> "Object.NewReader"
      [] s = "ioutil.ReadAll" -> "ioutil.ReadAll"
      [] s = "Objects" -> "Bucket.Objects"
      [] OTHER -> "nil"

\* the remote steps of each function, in the order of its body
Steps(o) ==
    CASE o = "Upload" -> <<"storage.NewClient", "io.Copy", "Writer.Close">>
      [] o = "Get" -> <<"storage.NewClient", "NewReader", "ioutil.ReadAll">>
      [] o = "List" -> <<"storage.NewClient", "Objects">>
      [] OTHER -> <<>>

\* Deferred without defer rc.Close()
M_Deferred(o, at) ==
    IF at = "connect" THEN <<>> ELSE <<"client.Close", "cancel">>

\* the calls deferred, in the order of their defer statements, by the time
\* function o returns from position at
Deferred(o, at) ==
    CASE at = "connect" -> <<>>
      [] at = "read" -> <<"client.Close", "cancel", "rc.Close">>
      [] OTHER -> <<"client.Close", "cancel">>

Reverse(s) == [i \in 1..Len(s) |-> s[Len(s) + 1 - i]]

\* deferred calls run last in, first out
Cleanup(o, at) ==
    LET d == Reverse(Deferred(o, at))
    IN  [i \in 1..Len(d) |-> Ev(d[i], TRUE)]

\* if err != nil { return fmt.Errorf("storage.NewClient: %v", err) }
CheckNewClient(o, ok) ==
    IF ok THEN NoErr ELSE Err(Tag(o, "storage.NewClient"), "")

\* CheckCopy with the error of io.Copy ignored
M_CheckCopy(ok) == NoErr

\* if _, err = io.Copy(wc, file); err != nil { return fmt.Errorf("io.Copy: ...
CheckCopy(ok) ==
    IF ok THEN NoErr ELSE Err(Tag("Upload", "io.Copy"), "")

\* CheckClose with the error of wc.Close ignored
M_CheckClose(ok) == NoErr

\* if err := wc.Close(); err != nil { return fmt.Errorf("Writer.Close: ...
CheckClose(ok) ==
    IF ok THEN NoErr ELSE Err(Tag("Upload", "Writer.Close"), "")

\* if err != nil { return nil, fmt.Errorf("Object(%q).NewReader: %v", object, ..
CheckNewReader(o, ok) ==
    IF ok THEN NoErr ELSE Err(Tag("Get", "NewReader"), o)

\* GetResult returning the bytes read so far beside the error
M_GetResult(d, ok) ==
    IF ok THEN [data |-> d, err |-> NoErr]
          ELSE [data |-> d, err |-> Err(Tag("Get", "ioutil.ReadAll"), "")]

\* GetResult with the error of ioutil.ReadAll ignored
M_GetResultNil(d, ok) == [data |-> d, err |-> NoErr]

\* data, err := ioutil.ReadAll(rc); if err != nil { return nil, ... };
\* return data, nil
GetResult(d, ok) ==
    IF ok THEN [data |-> d, err |-> NoErr]
          ELSE [data |-> <<>>, err |-> Err(Tag("Get", "ioutil.ReadAll"), "")]

\* ListResult returning nil names beside the error
M_ListResult(b, names, ok) ==
    IF ok THEN [names |-> names, err |-> NoErr]
          ELSE [names |-> <<>>, err |-> Err(Tag("List", "Objects"), b)]

\* return fileNames, fmt.Errorf("Bucket(%q).Objects: %v", bucket, err)
\* and, after the loop, return fileNames, nil
ListResult(b, names, ok) ==
    IF ok THEN [names |-> names, err |-> NoErr]
          ELSE [names |-> names, err |-> Err(Tag("List", "Objects"), b)]

\* Accumulate putting the new name in front
M_Accumulate(names, n) == <<n>> \o names

\* fileNames = append(fileNames, attrs.Name)
Accumulate(names, n) == Append(names, n)


\* ------------------------------------------------ environment: service

Max(a, b) == IF a > b THEN a ELSE b

\* a step bound by ctx succeeds only before the deadline of ctx
CanSucceed(p, d) == now + d < deadline[p]

\* the clock when a step of duration d ends; a step bound by ctx is cut
\* short at the deadline of ctx
After(p, d, bound) ==
    IF ~bound \/ now + d < deadline[p] THEN now + d ELSE Max(now, deadline[p])

\* index in ObjOrder of the first object of bucket b listed after index t
NextIdx(b, t) ==
    LET S == {i \in 1..Len(ObjOrder) : i > t /\ store[<<b, ObjOrder[i]>>].exists}
    IN  IF S = {} THEN 0 ELSE CHOOSE i \in S : \A j \in S : i <= j

RECURSIVE PageFrom(_, _, _)
PageFrom(b, t, n) ==
    IF n = 0 \/ NextIdx(b, t) = 0 THEN <<>>
    ELSE <<NextIdx(b, t)>> \o PageFrom(b, NextIdx(b, t), n - 1)

\* one page of the listing protocol after page token t
FetchPage(b, t) ==
    LET idx == PageFrom(b, t, PageSize)
        tok == IF idx = <<>> THEN t ELSE idx[Len(idx)]
    IN  [names |-> [i \in 1..Len(idx) |-> ObjOrder[idx[i]]],
         tok |-> tok,
         more |-> NextIdx(b, tok) # 0]

\* ------------------------------------------------------- code: actions

\* return e, bytes, names from position at; the deferred calls run, and the
\* call's channels are gone (data is left as ReadAll handed it back)
Return(p, at, tr, e, bytes, names) ==
    /\ pc' = [pc EXCEPT ![p] = "done"]
    /\ err' = [err EXCEPT ![p] = e]
    /\ retData' = [retData EXCEPT ![p] = bytes]
    /\ retNames' = [retNames EXCEPT ![p] = names]
    /\ trace' = [trace EXCEPT ![p] = tr \o Cleanup(op[p], at)]
    /\ wc' = [wc EXCEPT ![p] = NoChan]
    /\ rc' = [rc EXCEPT ![p] = NoChan]
    /\ it' = [it EXCEPT ![p] = NoIt]
    /\ fileNames' = [fileNames EXCEPT ![p] = <<>>]

\* a caller enters function o with arguments b, obj, f
Call(p, o, b, obj, f, m) ==
    /\ pc[p] \in {"idle", "done"}
    /\ calls < m
    /\ calls' = calls + 1
    /\ pc' = [pc EXCEPT ![p] = "connect"]
    /\ op' = [op EXCEPT ![p] = o]
    /\ bucket' = [bucket EXCEPT ![p] = b]
    /\ object' = [object EXCEPT ![p] = obj]
    /\ file' = [file EXCEPT ![p] = f]
    /\ entry' = [entry EXCEPT ![p] = now]
    /\ deadline' = [deadline EXCEPT ![p] = NoDeadline]
    /\ pre' = [pre EXCEPT ![p] = IF o = "Upload" THEN store[<<b, obj>>] ELSE Absent]
    /\ opened' = [opened EXCEPT ![p] = Absent]
    /\ yielded' = [yielded EXCEPT ![p] = <<>>]
    /\ trace' = [trace EXCEPT ![p] = <<>>]
    /\ err' = [err EXCEPT ![p] = NoErr]
    /\ retData' = [retData EXCEPT ![p] = <<>>]
    /\ retNames' = [retNames EXCEPT ![p] = <<>>]
    /\ data' = [data EXCEPT ![p] = <<>>]
    /\ UNCHANGED <<store, now, wc, rc, it, fileNames, lastOk, finalized>>

\* func Upload(file io.Reader, bucket, object string) error
CallUpload(p, b, obj, f, m) == Call(p, "Upload", b, obj, f, m)

\* func Get(bucket, object string) ([]byte, error)
CallGet(p, b, obj, m) == Call(p, "Get", b, obj, <<>>, m)

\* func List(bucket string) ([]string, error)
CallList(p, b, m) == Call(p, "List", b, "a", <<>>, m)

\* client, err := storage.NewClient(ctx) with ctx = context.Background();
\* then defer client.Close(), context.WithTimeout, defer cancel() and the
\* local constructors NewWriter / Objects, which contact nothing
NewClient(p, d, ok) ==
    LET tr == Append(trace[p], Ev("storage.NewClient", ok))
        e == CheckNewClient(op[p], ok)
    IN  /\ pc[p] = "connect"
        /\ now' = After(p, d, FALSE)
        /\ IF e # NoErr
           THEN /\ Return(p, "connect", tr, e, <<>>, fileNames[p])
                /\ UNCHANGED <<deadline, data>>
           ELSE /\ deadline' = [deadline EXCEPT ![p] = now' + Timeout(op[p])]
                /\ trace' = [trace EXCEPT ![p] = tr]
                /\ pc' = [pc EXCEPT ![p] =
                            CASE op[p] = "Upload" -> "copy"
                              [] op[p] = "Get" -> "open"
                              [] OTHER -> "next"]
                /\ wc' = [wc EXCEPT ![p] =
                            IF op[p] = "Upload" THEN Chan(<<>>) ELSE NoChan]
                /\ it' = [it EXCEPT ![p] =
                            IF op[p] = "List"
                            THEN [tok |-> 0, buf |-> <<>>, more |-> TRUE]
                            ELSE NoIt]
                /\ UNCHANGED <<rc, data, fileNames, retData, retNames, err>>
        /\ UNCHANGED <<store, callVars, histVars, opened, yielded, calls>>

\* UploadCopy with wc.Close() deferred: a failed copy still closes the writer
M_UploadCopy(p, d, ok) ==
    /\ pc[p] = "copy"
    /\ op[p] = "Upload"
    /\ ok /\ Len(wc[p].buf) < Len(file[p]) => CanSucceed(p, d)
    /\ IF ok /\ Len(wc[p].buf) < Len(file[p])
       THEN /\ wc' = [wc EXCEPT ![p] =
                        Chan(Append(wc[p].buf, file[p][Len(wc[p].buf) + 1]))]
            /\ now' = After(p, d, TRUE)
            /\ UNCHANGED <<pc, err, retData, retNames, trace, rc, data, it,
                           fileNames>>
       ELSE LET tr == Append(trace[p], Ev("io.Copy", ok))
                e == CheckCopy(ok)
            IN  IF e # NoErr
                THEN /\ Return(p, "copy", tr, e, <<>>, <<>>)
                     /\ now' = After(p, d, TRUE)
                     /\ UNCHANGED data
                ELSE /\ pc' = [pc EXCEPT ![p] = "close"]
                     /\ trace' = [trace EXCEPT ![p] = tr]
                     /\ now' = IF ok THEN now ELSE After(p, d, TRUE)
                     /\ UNCHANGED <<err, retData, retNames, wc, rc, data, it,
                                    fileNames>>
    /\ store' = IF ~ok THEN [store EXCEPT ![Key(p)] = Obj(wc[p].buf)] ELSE store
    /\ UNCHANGED <<callVars, histVars, deadline, opened, yielded, calls>>

\* io.Copy(wc, file): one chunk of the copy loop, or its return
UploadCopy(p, d, ok) ==
    /\ pc[p] = "copy"
    /\ op[p] = "Upload"
    /\ ok /\ Len(wc[p].buf) < Len(file[p]) => CanSucceed(p, d)
    /\ IF ok /\ Len(wc[p].buf) < Len(file[p])
       THEN /\ wc' = [wc EXCEPT ![p] =
                        Chan(Append(wc[p].buf, file[p][Len(wc[p].buf) + 1]))]
            /\ now' = After(p, d, TRUE)
            /\ UNCHANGED <<pc, err, retData, retNames, trace, rc, data, it,
                           fileNames>>
       ELSE LET tr == Append(trace[p], Ev("io.Copy", ok))
                e == CheckCopy(ok)
            IN  IF e # NoErr
                THEN /\ Return(p, "copy", tr, e, <<>>, <<>>)
                     /\ now' = After(p, d, TRUE)
                     /\ UNCHANGED data
                ELSE /\ pc' = [pc EXCEPT ![p] = "close"]
                     /\ trace' = [trace EXCEPT ![p] = tr]
                     /\ now' = IF ok THEN now ELSE After(p, d, TRUE)
                     /\ UNCHANGED <<err, retData, retNames, wc, rc, data, it,
                                    fileNames>>
    /\ UNCHANGED <<store, callVars, histVars, deadline, opened, yielded, calls>>

\* wc.Close(): the service commits the bytes written, or fails
WriterClose(p, d, ok) ==
    LET tr == Append(trace[p], Ev("Writer.Close", ok))
        e == CheckClose(ok)
    IN  /\ pc[p] = "close"
        /\ ok => CanSucceed(p, d)
        /\ now' = After(p, d, TRUE)
        /\ store' = IF ok THEN [store EXCEPT ![Key(p)] = Obj(wc[p].buf)] ELSE store
        /\ finalized' = IF ok THEN [finalized EXCEPT ![Key(p)] = Obj(file[p])]
                              ELSE finalized
        /\ lastOk' = IF e = NoErr THEN [lastOk EXCEPT ![Key(p)] = Obj(file[p])]
                                  ELSE lastOk
        /\ Return(p, "close", tr, e, <<>>, <<>>)
        /\ UNCHANGED <<callVars, deadline, opened, yielded, calls, data>>

\* rc, err := client.Bucket(bucket).Object(object).NewReader(ctx)
NewReader(p, d, ok) ==
    LET tr == Append(trace[p], Ev("NewReader", ok))
        e == CheckNewReader(object[p], ok)
    IN  /\ pc[p] = "open"
        /\ ok => CanSucceed(p, d) /\ store[Key(p)].exists
        /\ now' = After(p, d, TRUE)
        /\ IF e # NoErr
           THEN /\ Return(p, "open", tr, e, <<>>, <<>>)
                /\ UNCHANGED <<opened, data>>
           ELSE /\ rc' = [rc EXCEPT ![p] = Chan(store[Key(p)].content)]
                /\ opened' = [opened EXCEPT ![p] = finalized[Key(p)]]
                /\ pc' = [pc EXCEPT ![p] = "read"]
                /\ trace' = [trace EXCEPT ![p] = tr]
                /\ UNCHANGED <<err, retData, retNames, wc, data, it, fileNames>>
        /\ UNCHANGED <<store, callVars, histVars, deadline, yielded, calls>>

\* data, err := ioutil.ReadAll(rc): one chunk of the read loop, or its return
GetReadAll(p, d, ok) ==
    /\ pc[p] = "read"
    /\ ok /\ rc[p].buf # <<>> => CanSucceed(p, d)
    /\ IF ok /\ rc[p].buf # <<>>
       THEN /\ data' = [data EXCEPT ![p] = Append(data[p], Head(rc[p].buf))]
            /\ rc' = [rc EXCEPT ![p] = Chan(Tail(rc[p].buf))]
            /\ now' = After(p, d, TRUE)
            /\ UNCHANGED <<pc, err, retData, retNames, trace, wc, it, fileNames>>
       ELSE LET tr == Append(trace[p], Ev("ioutil.ReadAll", ok))
                r == GetResult(data[p], ok)
            IN  /\ Return(p, "read", tr, r.err, r.data, <<>>)
                /\ now' = IF ok THEN now ELSE After(p, d, TRUE)
                /\ UNCHANGED data
    /\ UNCHANGED <<store, callVars, histVars, deadline, opened, yielded, calls>>

\* one turn of the for loop of List: attrs, err := it.Next()
ListNext(p, d, ok) ==
    /\ pc[p] = "next"
    /\ IF it[p].buf # <<>>
       THEN \* a name of the current page
            /\ fileNames' = [fileNames EXCEPT ![p] =
                               Accumulate(fileNames[p], Head(it[p].buf))]
            /\ it' = [it EXCEPT ![p].buf = Tail(it[p].buf)]
            /\ UNCHANGED <<now, pc, err, retData, retNames, trace, wc, rc, yielded>>
       ELSE IF ~it[p].more
       THEN \* iterator.Done
            LET r == ListResult(bucket[p], fileNames[p], TRUE)
            IN  /\ Return(p, "next", trace[p], r.err, <<>>, r.names)
                /\ UNCHANGED <<now, yielded>>
       ELSE \* the next page is requested from the service
            LET page == FetchPage(bucket[p], it[p].tok)
                tr == Append(trace[p], Ev("Objects", ok))
            IN  /\ ok => CanSucceed(p, d)
                /\ now' = After(p, d, TRUE)
                /\ IF ~ok
                   THEN LET r == ListResult(bucket[p], fileNames[p], FALSE)
                        IN  /\ Return(p, "next", tr, r.err, <<>>, r.names)
                            /\ UNCHANGED yielded
                   ELSE /\ yielded' = [yielded EXCEPT ![p] = @ \o page.names]
                        /\ IF page.names = <<>>
                           THEN LET r == ListResult(bucket[p], fileNames[p], TRUE)
                                IN  Return(p, "next", tr, r.err, <<>>, r.names)
                           ELSE /\ fileNames' = [fileNames EXCEPT ![p] =
                                      Accumulate(fileNames[p], Head(page.names))]
                                /\ it' = [it EXCEPT ![p] =
                                      [tok |-> page.tok,
                                       buf |-> Tail(page.names),
                                       more |-> page.more]]
                                /\ trace' = [trace EXCEPT ![p] = tr]
                                /\ UNCHANGED <<pc, err, retData, retNames, wc, rc>>
    /\ UNCHANGED <<store, callVars, histVars, deadline, opened, calls, data>>

\* ------------------------------------------------------ specifications

Step(p, d, m, B) ==
    \/ \E b \in B, o \in Objects, f \in Payloads : CallUpload(p, b, o, f, m)
    \/ \E b \in B, o \in Objects : CallGet(p, b, o, m)
    \/ \E b \in B : CallList(p, b, m)
    \/ \E ok \in BOOLEAN : NewClient(p, d, ok)
    \/ \E ok \in BOOLEAN : UploadCopy(p, d, ok)
    \/ \E ok \in BOOLEAN : WriterClose(p, d, ok)
    \/ \E ok \in BOOLEAN : NewReader(p, d, ok)
    \/ \E ok \in BOOLEAN : GetReadAll(p, d, ok)
    \/ \E ok \in BOOLEAN : ListNext(p, d, ok)

\* concurrent callers on one bucket; every remote step may fail, time does
\* not pass
Next == \E p \in Procs : Step(p, 0, MaxCalls, {"b1"})
Spec == Init /\ [][Next]_vars

\* one caller, one call after another
NextSeq == Step(1, 0, MaxSeqCalls, Buckets)
SpecSeq == Init /\ [][NextSeq]_vars

\* one caller on one bucket; every remote step takes time
NextTimed == \E d \in Durations : Step(1, d, MaxTimedCalls, {"b1"})
SpecTimed == Init /\ [][NextTimed]_vars


\* ------------------------------------------------------------- claims

Range(q) == {q[i] : i \in 1..Len(q)}
Count(q, e) == Cardinality({i \in 1..Len(q) : q[i] = e})
Ops == {"Upload", "Get", "List"}
StepNames == UNION {Range(Steps(o)) : o \in Ops}
Returned(p, o) == pc[p] = "done" /\ op[p] = o
Attempted(p, s) == \E ok \in BOOLEAN : Ev(s, ok) \in Range(trace[p])
\* the position of step s in the body of function o
Pos(o, s) == CHOOSE i \in 1..Len(Steps(o)) : Steps(o)[i] = s
\* the names the service lists for bucket b, in its order
Listing(b) ==
    LET ex == SelectSeq([i \in 1..Len(ObjOrder) |-> i],
                        LAMBDA i : store[<<b, ObjOrder[i]>>].exists)
    IN  [i \in 1..Len(ex) |-> ObjOrder[ex[i]]]

\* C1: with one call after another, a Get that returns no error returns
\* exactly the payload of the latest Upload to the same (bucket, object) that
\* returned nil.
RoundTrip ==
    \A p \in Procs :
        Returned(p, "Get") /\ err[p] = NoErr /\ lastOk[Key(p)].exists
            => retData[p] = lastOk[Key(p)].content

\* a Get of b1/a returned the <<1, 2>> that the latest successful Upload sent
RoundTripWitness ==
    /\ Returned(1, "Get") /\ err[1] = NoErr
    /\ Key(1) = <<"b1", "a">>
    /\ lastOk[Key(1)] = Obj(<<1, 2>>)
    /\ retData[1] = <<1, 2>>

\* C2: Upload returns nil exactly when NewClient, the whole copy and
\* Writer.Close succeeded, and then the object holds exactly the bytes of
\* file; a failed Writer.Close gives the Writer.Close error even though
\* io.Copy copied every byte.
UploadNilMeansCommitted ==
    \A p \in Procs :
        Returned(p, "Upload") =>
            /\ err[p] = NoErr <=>
                  \A s \in Range(Steps("Upload")) : Ev(s, TRUE) \in Range(trace[p])
            /\ err[p] = NoErr => store[Key(p)] = Obj(file[p])
            /\ Ev("Writer.Close", FALSE) \in Range(trace[p]) =>
                  /\ err[p] = Err("Writer.Close", "")
                  /\ Ev("io.Copy", TRUE) \in Range(trace[p])

\* every byte of <<1, 2>> was copied and Writer.Close failed
UploadNilWitness ==
    /\ Returned(1, "Upload")
    /\ file[1] = <<1, 2>>
    /\ Ev("io.Copy", TRUE) \in Range(trace[1])
    /\ Ev("Writer.Close", FALSE) \in Range(trace[1])

\* C3: when the listing protocol fails, List returns the names it has
\* received so far, in the order received, together with the Bucket.Objects
\* error.
PartialListing ==
    \A p \in Procs :
        Returned(p, "List") /\ Ev("Objects", FALSE) \in Range(trace[p]) =>
            /\ retNames[p] = yielded[p]
            /\ err[p] = Err("Bucket.Objects", bucket[p])

\* the second page failed after a first page of two names
PartialListingWitness ==
    /\ Returned(1, "List")
    /\ Ev("Objects", FALSE) \in Range(trace[1])
    /\ retNames[1] = <<"a", "b">>

\* C4: every call returns within its timeout measured from call entry, and a
\* call cut short by the deadline fails with the error of its transfer step
\* (io.Copy, ioutil.ReadAll) or, for List, its listing step.
DeadlineFromEntry ==
    \A p \in Procs :
        pc[p] = "done" =>
            /\ now - entry[p] <= Timeout(op[p])
            /\ deadline[p] # NoDeadline /\ now >= deadline[p] /\ err[p] # NoErr =>
                  err[p].tag \in {"io.Copy", "ioutil.ReadAll", "Bucket.Objects"}

\* C5: a Get that returns an error returns no bytes, also when the read
\* failed after bytes had arrived; a Get of an object that does not exist
\* returns the Object.NewReader error carrying the object name, and never
\* reads.
GetErrorNoContent ==
    \A p \in Procs :
        Returned(p, "Get") =>
            /\ err[p] # NoErr => retData[p] = <<>>
            /\ ~store[Key(p)].exists /\ Ev("storage.NewClient", TRUE) \in Range(trace[p]) =>
                  /\ err[p] = Err("Object.NewReader", object[p])
                  /\ ~Attempted(p, "ioutil.ReadAll")
            /\ Ev("NewReader", FALSE) \in Range(trace[p]) =>
                  /\ err[p] = Err("Object.NewReader", object[p])
                  /\ ~Attempted(p, "ioutil.ReadAll")

\* the read failed after one byte of <<1, 2>> had arrived
GetErrorWitness ==
    /\ Returned(1, "Get")
    /\ Ev("ioutil.ReadAll", FALSE) \in Range(trace[1])
    /\ data[1] = <<1>>

\* C6: when a call has returned, the client it acquired has been closed
\* exactly once and, in Get, the reader it opened has been closed exactly
\* once and before the client; nothing is closed that was not acquired, and
\* nothing is closed before the call returns.
ReleaseOnEveryPath ==
    \A p \in Procs :
        LET tr == trace[p]
            acquired == Ev("storage.NewClient", TRUE) \in Range(tr)
            reading == Ev("NewReader", TRUE) \in Range(tr)
            nClient == Count(tr, Ev("client.Close", TRUE))
            nReader == Count(tr, Ev("rc.Close", TRUE))
        IN  /\ pc[p] = "done" => nClient = (IF acquired THEN 1 ELSE 0)
            /\ pc[p] = "done" => nReader = (IF reading THEN 1 ELSE 0)
            /\ pc[p] # "done" => nClient = 0 /\ nReader = 0
            /\ \A i, j \in 1..Len(tr) :
                  tr[i].step = "rc.Close" /\ tr[j].step = "client.Close" => i < j
            /\ \A i, j \in 1..Len(tr) :
                  tr[i].step \in StepNames /\ tr[j].step \notin StepNames => i < j

\* a Get whose read failed partway has closed its reader and its client
ReleaseWitness ==
    \E p \in Procs :
        /\ Returned(p, "Get")
        /\ Ev("ioutil.ReadAll", FALSE) \in Range(trace[p])
        /\ data[p] # <<>>
        /\ Ev("rc.Close", TRUE) \in Range(trace[p])

\* C7: a List whose steps all succeed returns, with no error, exactly the
\* names the listing protocol yielded, in its order; these are the names of
\* the objects of the bucket, so an empty bucket gives the empty sequence.
ListingComplete ==
    \A p \in Procs :
        Returned(p, "List") =>
            /\ (\A e \in Range(trace[p]) : e.ok) <=> err[p] = NoErr
            /\ err[p] = NoErr =>
                  /\ retNames[p] = yielded[p]
                  /\ retNames[p] = Listing(bucket[p])

\* a, b and c were uploaded to the empty bucket b2 and List returned them
ListingWitness ==
    /\ Returned(1, "List") /\ err[1] = NoErr
    /\ bucket[1] = "b2"
    /\ retNames[1] = <<"a", "b", "c">>

\* C8: the steps of a call run in the order of the function body, a step
\* other than the page requests of List runs at most once, a failed step is
\* the last step of the call and the call returns the error tagged for that
\* step, a call with no failed step returns nil, and the tags of the steps of
\* one function differ.
StepsInOrder ==
    /\ \A p \in Procs :
        LET st == SelectSeq(trace[p], LAMBDA e : e.step \in StepNames)
        IN  /\ \A i \in 1..Len(st) : st[i].step \in Range(Steps(op[p]))
            /\ \A i, j \in 1..Len(st) :
                  i < j => \/ Pos(op[p], st[i].step) < Pos(op[p], st[j].step)
                           \/ st[i].step = "Objects" /\ st[j].step = "Objects"
            /\ \A i \in 1..Len(st) :
                  ~st[i].ok => /\ i = Len(st)
                               /\ pc[p] = "done"
                               /\ err[p].tag = Tag(op[p], st[i].step)
            /\ pc[p] = "done" /\ (\A i \in 1..Len(st) : st[i].ok) => err[p] = NoErr
            /\ pc[p] # "done" => err[p] = NoErr
    /\ \A o \in Ops : \A i, j \in 1..Len(Steps(o)) :
          i # j => Tag(o, Steps(o)[i]) # Tag(o, Steps(o)[j])

\* an Upload failed in io.Copy and never ran Writer.Close
StepsWitness ==
    \E p \in Procs :
        /\ Returned(p, "Upload")
        /\ err[p] = Err("io.Copy", "")
        /\ ~Attempted(p, "Writer.Close")

\* C9: under any interleaving of calls, the object always holds the complete
\* payload of the Upload whose Writer.Close succeeded last (or what it held
\* before the calls), and a Get that returns no error returns exactly what
\* was finalized when it opened its reader.
ReadsFinalized ==
    /\ \A k \in Keys : store[k] = finalized[k]
    /\ \A p \in Procs :
          /\ Returned(p, "Get") /\ err[p] = NoErr =>
                opened[p].exists /\ retData[p] = opened[p].content
          /\ pc[p] = "read" =>
                opened[p].exists /\ data[p] \o rc[p].buf = opened[p].content

\* a Get returned the old <<2, 1>> while an Upload of <<1, 2>> to the same
\* object had written all its bytes and not yet closed its writer
ReadsFinalizedWitness ==
    \E p, q \in Procs :
        /\ Returned(p, "Get") /\ err[p] = NoErr /\ retData[p] = <<2, 1>>
        /\ op[q] = "Upload" /\ pc[q] = "close" /\ Key(q) = Key(p)
        /\ wc[q].buf = <<1, 2>>

\* C10: an Upload that fails in NewClient or io.Copy never runs Writer.Close
\* and leaves the object as it was at call entry.
FailedUploadKeepsObject ==
    \A p \in Procs :
        Returned(p, "Upload") /\ err[p].tag \in {"storage.NewClient", "io.Copy"} =>
            /\ ~Attempted(p, "Writer.Close")
            /\ store[Key(p)] = pre[p]

\* the copy of <<1, 2>> over an object holding <<2, 1>> failed
FailedUploadWitness ==
    /\ Returned(1, "Upload")
    /\ err[1] = Err("io.Copy", "")
    /\ file[1] = <<1, 2>>
    /\ pre[1] = Obj(<<2, 1>>)

====
